---- MODULE Spec2Model ----
(***************************************************************************)
(* source-to-llm: the directory walk of src/index.js (loadGitignore,       *)
(* traverseDirectory and the part of main that drives them).               *)
(*                                                                         *)
(* A JavaScript string is a sequence of one-character strings, so that     *)
(* concatenation, path arithmetic and pattern matching are computed the    *)
(* way the code computes them.  The box-drawing characters are named by    *)
(* their code point ("U+2514" is one character).                           *)
(***************************************************************************)
EXTENDS Naturals, Sequences, FiniteSets

(* ---------------------------------------------------------------------- *)
(* Bounds of the model                                                     *)
(* ---------------------------------------------------------------------- *)

\* the most filesystem nodes (below the root) a generated tree holds; the
\* named trees of ScenarioTrees are modelled whatever their size
MaxNodes == 3

\* the most nodes of a tree that fail (unlistable directory, unreadable file)
MaxFaults == 1

(* ---------------------------------------------------------------------- *)
(* Characters and strings                                                  *)
(* ---------------------------------------------------------------------- *)

NL == "\n"
SLASH == "/"

\* "└── " and "├── " (index.js:198), "    " and "│   " (index.js:199)
CONNECTOR_LAST == <<"U+2514", "U+2500", "U+2500", " ">>
CONNECTOR_MID == <<"U+251C", "U+2500", "U+2500", " ">>
PREFIX_LAST == <<" ", " ", " ", " ">>
PREFIX_MID == <<"U+2502", " ", " ", " ">>

\* s.startsWith(p)
StartsWith(s, p) == Len(p) <= Len(s) /\ SubSeq(s, 1, Len(p)) = p

\* s.endsWith(p)
EndsWith(s, p) == Len(p) <= Len(s) /\ SubSeq(s, Len(s) - Len(p) + 1, Len(s)) = p

\* the text of s from (1-based) position i on
From(s, i) == SubSeq(s, i, Len(s))

\* whether character c occurs in s
Has(s, c) == \E i \in 1..Len(s) : s[i] = c

\* the number of occurrences of character c in s
RECURSIVE CountChar(_, _)
CountChar(s, c) ==
  IF s = <<>> THEN 0
  ELSE (IF Head(s) = c THEN 1 ELSE 0) + CountChar(Tail(s), c)

(* ---------------------------------------------------------------------- *)
(* node:path                                                               *)
(* ---------------------------------------------------------------------- *)

\* path.join(dir, name), for a normalised dir and a bare name
PathJoin(dir, name) == dir \o <<SLASH>> \o name

\* path.relative(from, to), for `to` equal to or below `from`
PathRelative(from, to) == IF to = from THEN <<>> ELSE From(to, Len(from) + 2)

\* path.basename(p): the text after the last separator
RECURSIVE PathBasename(_)
PathBasename(p) ==
  IF ~Has(p, SLASH) THEN p ELSE PathBasename(Tail(p))

(* ---------------------------------------------------------------------- *)
(* The whitelist: the glob-to-RegExp translation of index.js:180-185       *)
(* ---------------------------------------------------------------------- *)

\* pattern.replace(/\*\*/g, "(.+)").replace(/\*/g, "([^/]+)"): neither
\* replacement text holds a star, so one left-to-right scan gives the result
\* of the two passes
RECURSIVE ReplaceStars(_)
ReplaceStars(pattern) ==
  IF pattern = <<>> THEN <<>>
  ELSE IF StartsWith(pattern, <<"*", "*">>)
    THEN <<"(", ".", "+", ")">> \o ReplaceStars(From(pattern, 3))
  ELSE IF Head(pattern) = "*"
    THEN <<"(", "[", "^", "/", "]", "+", ")">> \o ReplaceStars(Tail(pattern))
  ELSE <<Head(pattern)>> \o ReplaceStars(Tail(pattern))

\* the source text handed to new RegExp(...)
OnlyRegexSource(pattern) == <<"^">> \o ReplaceStars(pattern) \o <<"$">>

\* new RegExp(source): the constructs the translation can produce, "^", "$",
\* "(.+)", "([^/]+)" and ".", and every other character as a literal (the
\* modelled patterns hold no other regular-expression metacharacter)
RECURSIVE RegExpCompile(_)
RegExpCompile(src) ==
  IF src = <<>> THEN <<>>
  ELSE IF StartsWith(src, <<"(", ".", "+", ")">>)
    THEN <<[t |-> "plusAny", c |-> ""]>> \o RegExpCompile(From(src, 5))
  ELSE IF StartsWith(src, <<"(", "[", "^", "/", "]", "+", ")">>)
    THEN <<[t |-> "plusSeg", c |-> ""]>> \o RegExpCompile(From(src, 8))
  ELSE IF Head(src) = "^" THEN <<[t |-> "bol", c |-> ""]>> \o RegExpCompile(Tail(src))
  ELSE IF Head(src) = "$" THEN <<[t |-> "eol", c |-> ""]>> \o RegExpCompile(Tail(src))
  ELSE IF Head(src) = "." THEN <<[t |-> "dot", c |-> ""]>> \o RegExpCompile(Tail(src))
  ELSE <<[t |-> "lit", c |-> Head(src)]>> \o RegExpCompile(Tail(src))

\* the positions (characters consumed) at which the tokens can stop matching
\* s when they start after i characters
RECURSIVE RegexEnds(_, _, _)
RegexEnds(toks, s, i) ==
  IF toks = <<>> THEN {i}
  ELSE LET tk == Head(toks)
           rest == Tail(toks)
       IN CASE tk.t = "lit" ->
                 IF i < Len(s) /\ s[i + 1] = tk.c THEN RegexEnds(rest, s, i + 1) ELSE {}
            [] tk.t = "dot" ->
                 IF i < Len(s) /\ s[i + 1] # NL THEN RegexEnds(rest, s, i + 1) ELSE {}
            [] tk.t = "bol" -> IF i = 0 THEN RegexEnds(rest, s, i) ELSE {}
            [] tk.t = "eol" -> IF i = Len(s) THEN RegexEnds(rest, s, i) ELSE {}
            [] tk.t = "plusAny" ->
                 UNION {RegexEnds(rest, s, j) :
                          j \in {k \in (i + 1)..Len(s) : \A m \in (i + 1)..k : s[m] # NL}}
            [] tk.t = "plusSeg" ->
                 UNION {RegexEnds(rest, s, j) :
                          j \in {k \in (i + 1)..Len(s) : \A m \in (i + 1)..k : s[m] # SLASH}}

\* regex.test(s): a match starting anywhere
RegexTest(src, s) ==
  \E i \in 0..Len(s) : RegexEnds(RegExpCompile(src), s, i) # {}

\* only.some(pattern => regex.test(checkPath))
MatchesOnly(only, checkPath) ==
  \E k \in 1..Len(only) : RegexTest(OnlyRegexSource(only[k]), checkPath)

(* ---------------------------------------------------------------------- *)
(* The `ignore` package (index.js:6): rules in the order added, the last   *)
(* matching rule decides, a `!` rule re-includes, and a path below an      *)
(* ignored directory is ignored.  Modelled for the gitignore constructs    *)
(* the modelled patterns use: literal characters, `*`, a leading `/`, an   *)
(* inner `/`, a trailing `/`, a leading `!`, `#` comments and blank lines. *)
(* ---------------------------------------------------------------------- *)

\* text.split(/\r?\n/) for a text without carriage returns
RECURSIVE SplitLines(_)
SplitLines(text) ==
  IF ~Has(text, NL) THEN <<text>>
  ELSE LET k == CHOOSE i \in 1..Len(text) :
                  text[i] = NL /\ \A j \in 1..(i - 1) : text[j] # NL
       IN <<SubSeq(text, 1, k - 1)>> \o SplitLines(From(text, k + 1))

\* checkPattern: not empty, not blank, not a comment
CheckPattern(line) ==
  /\ line # <<>>
  /\ \E i \in 1..Len(line) : line[i] # " "
  /\ Head(line) # "#"

\* createRule: the negation mark is split off the pattern
CreateRule(line) ==
  IF Head(line) = "!" THEN [negative |-> TRUE, pattern |-> Tail(line)]
  ELSE [negative |-> FALSE, pattern |-> line]

RECURSIVE CreateRules(_)
CreateRules(lines) ==
  IF lines = <<>> THEN <<>>
  ELSE IF CheckPattern(Head(lines)) THEN <<CreateRule(Head(lines))>> \o CreateRules(Tail(lines))
  ELSE CreateRules(Tail(lines))

\* ig.add(patterns) for an array of patterns
IgnoreAdd(ig, patterns) == ig \o CreateRules(patterns)

\* ig.add(text) for the text of an ignore file
IgnoreAddText(ig, text) == ig \o CreateRules(SplitLines(text))

\* the positions at which the glob body can stop matching path when it
\* starts after i characters: `*` is [^/]* , or [^/]+ when it ends the
\* pattern right after a slash
RECURSIVE GlobEnds(_, _, _, _)
GlobEnds(glob, k, path, i) ==
  IF k > Len(glob) THEN {i}
  ELSE IF glob[k] = "*"
    THEN LET least == IF k = Len(glob) /\ k > 1 /\ glob[k - 1] = SLASH THEN 1 ELSE 0
         IN UNION {GlobEnds(glob, k + 1, path, j) :
                     j \in {e \in (i + least)..Len(path) : \A m \in (i + 1)..e : path[m] # SLASH}}
  ELSE IF i < Len(path) /\ path[i + 1] = glob[k] THEN GlobEnds(glob, k + 1, path, i + 1)
  ELSE {}

\* rule.regex.test(path)
RuleMatches(rule, path) ==
  LET dirOnly == EndsWith(rule.pattern, <<SLASH>>)
      noTail == IF dirOnly THEN SubSeq(rule.pattern, 1, Len(rule.pattern) - 1) ELSE rule.pattern
      leading == StartsWith(noTail, <<SLASH>>)
      glob == IF leading THEN Tail(noTail) ELSE noTail
      anchored == leading \/ Has(glob, SLASH)
      starts == IF anchored THEN {0}
                ELSE {0} \cup {i \in 1..Len(path) : path[i] = SLASH}
  IN \E i \in starts : \E e \in GlobEnds(glob, 1, path, i) :
       IF dirOnly THEN From(path, e + 1) = <<SLASH>>
       ELSE From(path, e + 1) \in {<<>>, <<SLASH>>}

\* _testOne: the rules in order, each matching rule overriding the verdict
RECURSIVE TestOne(_, _, _)
TestOne(ig, path, ignored) ==
  IF ig = <<>> THEN ignored
  ELSE TestOne(Tail(ig), path,
               IF RuleMatches(Head(ig), path) THEN ~Head(ig).negative ELSE ignored)

\* the directory path (with its trailing slash) holding path, <<>> at the top
ParentPath(path) ==
  LET body == IF EndsWith(path, <<SLASH>>) THEN SubSeq(path, 1, Len(path) - 1) ELSE path
      cuts == {i \in 1..Len(body) : body[i] = SLASH}
  IN IF cuts = {} THEN <<>>
     ELSE SubSeq(body, 1, CHOOSE i \in cuts : \A j \in cuts : j <= i)

\* ig.ignores(path): _t, which asks the parent directories first
RECURSIVE Ignores(_, _)
Ignores(ig, path) ==
  IF ParentPath(path) # <<>> /\ Ignores(ig, ParentPath(path)) THEN TRUE
  ELSE TestOne(ig, path, FALSE)

(* ---------------------------------------------------------------------- *)
(* Program constants                                                       *)
(* ---------------------------------------------------------------------- *)

DEFAULT_STRUCTURE_FILENAME == <<"s", "t", "r", "u", "c", "t", "u", "r", "e", ".", "t", "x", "t">>
DEFAULT_CONTENTS_FILENAME == <<"c", "o", "n", "t", "e", "n", "t", "s", ".", "t", "x", "t">>
DOT_GIT == <<".", "g", "i", "t">>
NODE_MODULES == <<"n", "o", "d", "e", "_", "m", "o", "d", "u", "l", "e", "s">>
DOT_GITIGNORE == <<".", "g", "i", "t", "i", "g", "n", "o", "r", "e">>

ALWAYS_IGNORE ==
  <<DOT_GIT, NODE_MODULES, DEFAULT_STRUCTURE_FILENAME, DEFAULT_CONTENTS_FILENAME>>

\* "/* --- Contents from directory: " and " --- */\n" (index.js:354)
CONTENTS_HEADER_OPEN ==
  <<"/", "*", " ", "-", "-", "-", " ", "C", "o", "n", "t", "e", "n", "t", "s", " ",
    "f", "r", "o", "m", " ", "d", "i", "r", "e", "c", "t", "o", "r", "y", ":", " ">>
HEADER_CLOSE == <<" ", "-", "-", "-", " ", "*", "/">>

\* "\n/* --- File: " (index.js:214)
FILE_HEADER_OPEN ==
  <<NL, "/", "*", " ", "-", "-", "-", " ", "F", "i", "l", "e", ":", " ">>

(* ---------------------------------------------------------------------- *)
(* The filesystem: the trees the walk is run over                          *)
(* ---------------------------------------------------------------------- *)

\* the directory the tool is pointed at
targetDir == <<"/", "p">>

SRC == <<"s", "r", "c">>
LIB == <<"l", "i", "b">>
NESTED == <<"n", "e", "s", "t", "e", "d">>
A_TXT == <<"a", ".", "t", "x", "t">>
B_TXT == <<"b", ".", "t", "x", "t">>
C_TXT == <<"c", ".", "t", "x", "t">>
APP_LOG == <<"a", "p", "p", ".", "l", "o", "g">>
X_BIN == <<"x", ".", "b", "i", "n">>
LNK == <<"l", "n", "k">>

\* a byte that starts no valid UTF-8 sequence
INVALID_BYTE == "0xFF"

Node(dir, name, kind, bytes) == [dir |-> dir, name |-> name, kind |-> kind, bytes |-> bytes]

\* Every node a modelled tree can hold, each directory's nodes in the order
\* its listing returns them (which is not the sorted order).  A tree is a
\* subset of these nodes.
Universe ==
  LET src == PathJoin(targetDir, SRC)
      nested == PathJoin(src, NESTED)
  IN << Node(targetDir, SRC, "dir", <<>>),
        Node(targetDir, DOT_GITIGNORE, "file",
             <<"#", "k", NL, "*", ".", "l", "o", "g", NL, NL,
               "!", "n", "o", "d", "e", "_", "m", "o", "d", "u", "l", "e", "s", NL>>),
        Node(targetDir, NODE_MODULES, "dir", <<>>),
        Node(targetDir, LIB, "dir", <<>>),
        Node(targetDir, DEFAULT_STRUCTURE_FILENAME, "file", <<"p", NL>>),
        Node(targetDir, APP_LOG, "file", <<"l">>),
        Node(src, A_TXT, "file", <<"h", "i">>),
        Node(src, NESTED, "dir", <<>>),
        Node(src, X_BIN, "file", <<INVALID_BYTE, "b">>),
        Node(src, LNK, "other", <<>>),
        Node(nested, B_TXT, "file", <<"b">>),
        Node(nested, DOT_GIT, "dir", <<>>),
        Node(PathJoin(targetDir, LIB), C_TXT, "file", <<"c", NL>>) >>

Nodes == 1..Len(Universe)

NodePath(n) == PathJoin(Universe[n].dir, Universe[n].name)

\* the nodes at the given paths (relative to targetDir)
NodesAt(paths) == {n \in Nodes : PathRelative(targetDir, NodePath(n)) \in paths}

\* the tree of the whitelist scenario: src/a.txt, src/nested/b.txt, lib/c.txt
WhitelistScenarioTree ==
  NodesAt({SRC, PathJoin(SRC, A_TXT), PathJoin(SRC, NESTED),
           PathJoin(PathJoin(SRC, NESTED), B_TXT), LIB, PathJoin(LIB, C_TXT)})

\* a tree three levels deep in which neither src nor src/nested comes last
DeepScenarioTree ==
  NodesAt({SRC, PathJoin(SRC, NESTED), PathJoin(PathJoin(SRC, NESTED), B_TXT),
           PathJoin(SRC, X_BIN), LIB})

ScenarioTrees == {WhitelistScenarioTree, DeepScenarioTree}

\* a tree: each node's directory is in it, no directory holds a name twice,
\* and the faulty nodes (0 is the root) are directories and regular files
IsTree(present, faulty) ==
  /\ Cardinality(present) <= MaxNodes \/ present \in ScenarioTrees
  /\ Cardinality(faulty) <= MaxFaults
  /\ \A n \in present :
       \/ Universe[n].dir = targetDir
       \/ \E d \in present : Universe[d].kind = "dir" /\ NodePath(d) = Universe[n].dir
  /\ \A n, m \in present : n # m => NodePath(n) # NodePath(m)
  /\ \A n \in faulty : n = 0 \/ (n \in present /\ Universe[n].kind # "other")

\* the node at an absolute path, 0 for the root and for no node
NodeAt(tree, path) ==
  IF \E n \in tree.present : NodePath(n) = path
  THEN CHOOSE n \in tree.present : NodePath(n) = path
  ELSE 0

\* fs.readdir(dir, { withFileTypes: true }): the entries in listing order
RECURSIVE Listing(_, _, _)
Listing(tree, dir, n) ==
  IF n > Len(Universe) THEN <<>>
  ELSE (IF n \in tree.present /\ Universe[n].dir = dir
        THEN <<[name |-> Universe[n].name, kind |-> Universe[n].kind]>>
        ELSE <<>>) \o Listing(tree, dir, n + 1)

Readdir(tree, dir) ==
  IF NodeAt(tree, dir) \in tree.faulty THEN [ok |-> FALSE, entries |-> <<>>]
  ELSE [ok |-> TRUE, entries |-> Listing(tree, dir, 1)]

\* buffer.toString("utf-8"): an invalid byte decodes to U+FFFD, it is no error
RECURSIVE Utf8Decode(_)
Utf8Decode(bytes) ==
  IF bytes = <<>> THEN <<>>
  ELSE <<IF Head(bytes) = INVALID_BYTE THEN "U+FFFD" ELSE Head(bytes)>> \o Utf8Decode(Tail(bytes))

\* fs.readFile(path, "utf-8"): the decoded text, or an error (code ENOENT for
\* a missing file, another code for a file that cannot be read)
ReadFile(tree, path) ==
  LET n == NodeAt(tree, path)
  IN IF n = 0 THEN [ok |-> FALSE, code |-> "ENOENT", text |-> <<>>]
     ELSE IF n \in tree.faulty THEN [ok |-> FALSE, code |-> "EACCES", text |-> <<>>]
     ELSE [ok |-> TRUE, code |-> "", text |-> Utf8Decode(Universe[n].bytes)]

(* ---------------------------------------------------------------------- *)
(* The configuration                                                       *)
(* ---------------------------------------------------------------------- *)

IgnoresChoices ==
  { <<>>, << <<"n", "e", "s", "t", "e", "d", "/">>, <<"*", ".", "l", "o", "g">>,
             <<"!", "b", ".", "t", "x", "t">> >> }

OnlyChoices ==
  { <<>>, << <<"s", "r", "c", "/", "*", "*">> >>,
    << <<"s", "r", "c", "/">>, <<"*", "*", "/", "*", ".", "t", "x", "t">>,
       <<"*", ".", "l", "o", "g">>, <<"s", "r", "c", "/", "n", "e", "s", "t", "e", "d", "/">> >> }

Configs ==
  [gitignore : BOOLEAN, ignores : IgnoresChoices, only : OnlyChoices,
   includeContentsHeader : BOOLEAN]

(* ---------------------------------------------------------------------- *)
(* State                                                                   *)
(* ---------------------------------------------------------------------- *)

VARIABLES
  pc,       \* where main is: "loadGitignore", "init", "traverse", "done"
  tree,     \* the filesystem under targetDir
  config,   \* the merged configuration
  ig,       \* the ignore instance: its rules in the order added
  output,   \* { structure, contents }
  stack,    \* the active traverseDirectory calls, the innermost last
  appends,  \* history: each append to a buffer, with the entry it was made for
  listings  \* history: each fs.readdir call, with what it returned

vars == <<pc, tree, config, ig, output, stack, appends, listings>>

(* ---------------------------------------------------------------------- *)
(* loadGitignore and main                                                  *)
(* ---------------------------------------------------------------------- *)

\* index.js:129-149
loadGitignoreRules(fsTree, dir, useGitignore) ==
  LET base == IgnoreAdd(<<>>, ALWAYS_IGNORE)
      read == ReadFile(fsTree, PathJoin(dir, DOT_GITIGNORE))
  IN IF useGitignore /\ read.ok THEN IgnoreAddText(base, read.text) ELSE base

\* the rules of ig after main's ig.add(config.ignores), index.js:349
AddExtraIgnores(rules, ignores) == IgnoreAdd(rules, ignores)

\* index.js:352-355
InitialOutput(dir, includeContentsHeader) ==
  [structure |-> PathBasename(dir) \o <<NL>>,
   contents |-> IF includeContentsHeader
                THEN CONTENTS_HEADER_OPEN \o dir \o HEADER_CLOSE \o <<NL>>
                ELSE <<>>]

Frame(dir, prefix) ==
  [currentDir |-> dir, prefix |-> prefix, listed |-> FALSE, validEntries |-> <<>>, i |-> 1]

Init ==
  /\ pc = "loadGitignore"
  /\ \E present \in SUBSET Nodes : \E faulty \in SUBSET (present \cup {0}) :
       /\ IsTree(present, faulty)
       /\ tree = [present |-> present, faulty |-> faulty]
  /\ config \in Configs
  /\ ig = <<>>
  /\ output = [structure |-> <<>>, contents |-> <<>>]
  /\ stack = <<>>
  /\ appends = <<>>
  /\ listings = <<>>

\* main, step 6 (first half): const ig = await loadGitignore(...)
LoadGitignore ==
  /\ pc = "loadGitignore"
  /\ ig' = loadGitignoreRules(tree, targetDir, config.gitignore)
  /\ pc' = "init"
  /\ UNCHANGED <<tree, config, output, stack, appends, listings>>

\* main, steps 6 (second half) to 8: the extra ignores, the seeded output and
\* the call of traverseDirectory on the root with the empty prefix
StartTraversal ==
  /\ pc = "init"
  /\ ig' = AddExtraIgnores(ig, config.ignores)
  /\ output' = InitialOutput(targetDir, config.includeContentsHeader)
  /\ stack' = <<Frame(targetDir, <<>>)>>
  /\ pc' = "traverse"
  /\ UNCHANGED <<tree, config, appends, listings>>

(* ---------------------------------------------------------------------- *)
(* traverseDirectory                                                       *)
(* ---------------------------------------------------------------------- *)

\* index.js:174-176
RelativePathOf(currentDir, rootDir, name) == PathRelative(rootDir, PathJoin(currentDir, name))

CheckPath(currentDir, rootDir, entry) ==
  IF entry.kind = "dir" THEN RelativePathOf(currentDir, rootDir, entry.name) \o <<SLASH>>
  ELSE RelativePathOf(currentDir, rootDir, entry.name)

\* the filter with a whitelist match admitting the entry outright
IsValidEntryOnceWhitelisted(entry, currentDir, rootDir, rules, only) ==
  LET checkPath == CheckPath(currentDir, rootDir, entry)
  IN IF Len(only) > 0 THEN MatchesOnly(only, checkPath)
     ELSE ~Ignores(rules, checkPath)

\* the filter letting every directory through
IsValidEntryAdmittingDirectories(entry, currentDir, rootDir, rules, only) ==
  LET checkPath == CheckPath(currentDir, rootDir, entry)
  IN \/ entry.kind = "dir"
     \/ IF Len(only) > 0 /\ ~MatchesOnly(only, checkPath) THEN FALSE
        ELSE ~Ignores(rules, checkPath)

\* the filter callback, index.js:173-192
IsValidEntry(entry, currentDir, rootDir, rules, only) ==
  LET checkPath == CheckPath(currentDir, rootDir, entry)
  IN IF Len(only) > 0 /\ ~MatchesOnly(only, checkPath) THEN FALSE
     ELSE ~Ignores(rules, checkPath)

\* the survivors in the reverse of the listing order
ValidEntriesReversed(entries, currentDir, rootDir, rules, only) ==
  LET kept == SelectSeq(entries, LAMBDA e : IsValidEntry(e, currentDir, rootDir, rules, only))
  IN [k \in 1..Len(kept) |-> kept[Len(kept) + 1 - k]]

ValidEntries(entries, currentDir, rootDir, rules, only) ==
  SelectSeq(entries, LAMBDA e : IsValidEntry(e, currentDir, rootDir, rules, only))

\* the loop stopping one entry early
LoopContinuesStoppingEarly(i, validEntries) == i < Len(validEntries)

\* the loop condition i < validEntries.length of index.js:194 (i counts from 1 here)
LoopContinues(i, validEntries) == i <= Len(validEntries)

\* isLast compared with the length instead of the last index
IsLastNever(i, validEntries) == i = Len(validEntries) + 1

\* index.js:197-199
IsLast(i, validEntries) == i = Len(validEntries)
Connector(isLast) == IF isLast THEN CONNECTOR_LAST ELSE CONNECTOR_MID

\* the prefix of the children without the prefix of the directory itself
NewPrefixWithoutAncestors(prefix, isLast) == IF isLast THEN PREFIX_LAST ELSE PREFIX_MID
NewPrefix(prefix, isLast) == prefix \o (IF isLast THEN PREFIX_LAST ELSE PREFIX_MID)

\* index.js:202
StructureLine(prefix, connector, name) == prefix \o connector \o name \o <<NL>>

\* the block without the newline that ends it
ContentsBlockUnterminated(includeContentsHeader, relativePath, content) ==
  (IF includeContentsHeader
   THEN FILE_HEADER_OPEN \o relativePath \o HEADER_CLOSE \o <<NL, NL>>
   ELSE <<>>) \o content

\* what a successful read appends to output.contents, index.js:213-218
ContentsBlock(includeContentsHeader, relativePath, content) ==
  (IF includeContentsHeader
   THEN FILE_HEADER_OPEN \o relativePath \o HEADER_CLOSE \o <<NL, NL>>
   ELSE <<>>) \o content \o <<NL>>

Top == stack[Len(stack)]
Entry == Top.validEntries[Top.i]

\* the stack once the innermost call has returned: the caller's loop moves on
Returned ==
  IF Len(stack) = 1 THEN <<>>
  ELSE LET callers == SubSeq(stack, 1, Len(stack) - 1)
       IN [callers EXCEPT ![Len(callers)].i = @ + 1]

AppendEvent(buf, path, old, text) ==
  [buf |-> buf, path |-> path, from |-> Len(old) + 1, to |-> Len(old) + Len(text)]

\* the record of one fs.readdir call
ReaddirCall(dir) ==
  [dir |-> dir, ok |-> Readdir(tree, dir).ok, entries |-> Readdir(tree, dir).entries]

EmitLine ==
  LET isLast == IsLast(Top.i, Top.validEntries)
      line == StructureLine(Top.prefix, Connector(isLast), Entry.name)
  IN [structure |-> output.structure \o line,
      event |-> AppendEvent("structure", RelativePathOf(Top.currentDir, targetDir, Entry.name),
                       output.structure, line)]

\* index.js:162-192, the listing succeeds: the entries are filtered
ListDirectory ==
  /\ pc = "traverse" /\ stack # <<>> /\ ~Top.listed
  /\ Readdir(tree, Top.currentDir).ok
  /\ stack' = [stack EXCEPT ![Len(stack)].listed = TRUE,
                            ![Len(stack)].validEntries =
                               ValidEntries(Readdir(tree, Top.currentDir).entries,
                                            Top.currentDir, targetDir, ig, config.only)]
  /\ listings' = Append(listings, ReaddirCall(Top.currentDir))
  /\ UNCHANGED <<pc, tree, config, ig, output, appends>>

\* the listing fails and the failure ends the whole walk
ListDirectoryFailsAbortingWalk ==
  /\ pc = "traverse" /\ stack # <<>> /\ ~Top.listed
  /\ ~Readdir(tree, Top.currentDir).ok
  /\ stack' = <<>>
  /\ pc' = "done"
  /\ listings' = Append(listings, ReaddirCall(Top.currentDir))
  /\ UNCHANGED <<tree, config, ig, output, appends>>

\* index.js:166-170, the listing fails: a warning, and the call returns
ListDirectoryFails ==
  /\ pc = "traverse" /\ stack # <<>> /\ ~Top.listed
  /\ ~Readdir(tree, Top.currentDir).ok
  /\ stack' = Returned
  /\ pc' = IF Len(stack) = 1 THEN "done" ELSE pc
  /\ listings' = Append(listings, ReaddirCall(Top.currentDir))
  /\ UNCHANGED <<tree, config, ig, output, appends>>

\* index.js:194-206, the entry is a directory: its line, then the recursive call
VisitDirectory ==
  /\ pc = "traverse" /\ stack # <<>> /\ Top.listed /\ LoopContinues(Top.i, Top.validEntries)
  /\ Entry.kind = "dir"
  /\ output' = [output EXCEPT !.structure = EmitLine.structure]
  /\ appends' = Append(appends, EmitLine.event)
  /\ stack' = Append(stack, Frame(PathJoin(Top.currentDir, Entry.name),
                                  NewPrefix(Top.prefix, IsLast(Top.i, Top.validEntries))))
  /\ UNCHANGED <<pc, tree, config, ig, listings>>

\* index.js:194-225, the entry is a regular file: its line, then the read.
\* A failed read only logs (index.js:219-225, whatever the error message says)
\* and appends nothing.
VisitFile ==
  /\ pc = "traverse" /\ stack # <<>> /\ Top.listed /\ LoopContinues(Top.i, Top.validEntries)
  /\ Entry.kind = "file"
  /\ LET relativePath == RelativePathOf(Top.currentDir, targetDir, Entry.name)
         read == ReadFile(tree, PathJoin(Top.currentDir, Entry.name))
         block == ContentsBlock(config.includeContentsHeader, relativePath, read.text)
     IN IF read.ok
        THEN /\ output' = [structure |-> EmitLine.structure,
                           contents |-> output.contents \o block]
             /\ appends' = appends \o <<EmitLine.event,
                                        AppendEvent("contents", relativePath, output.contents, block)>>
        ELSE /\ output' = [output EXCEPT !.structure = EmitLine.structure]
             /\ appends' = Append(appends, EmitLine.event)
  /\ stack' = [stack EXCEPT ![Len(stack)].i = @ + 1]
  /\ UNCHANGED <<pc, tree, config, ig, listings>>

\* index.js:194-207, the entry is neither: its line only
VisitOther ==
  /\ pc = "traverse" /\ stack # <<>> /\ Top.listed /\ LoopContinues(Top.i, Top.validEntries)
  /\ Entry.kind = "other"
  /\ output' = [output EXCEPT !.structure = EmitLine.structure]
  /\ appends' = Append(appends, EmitLine.event)
  /\ stack' = [stack EXCEPT ![Len(stack)].i = @ + 1]
  /\ UNCHANGED <<pc, tree, config, ig, listings>>

\* index.js:194 and 227-228, the loop is over: the call returns
Return ==
  /\ pc = "traverse" /\ stack # <<>> /\ Top.listed /\ ~LoopContinues(Top.i, Top.validEntries)
  /\ stack' = Returned
  /\ pc' = IF Len(stack) = 1 THEN "done" ELSE pc
  /\ UNCHANGED <<tree, config, ig, output, appends, listings>>

Next ==
  \/ LoadGitignore
  \/ StartTraversal
  \/ ListDirectory
  \/ ListDirectoryFails
  \/ VisitDirectory
  \/ VisitFile
  \/ VisitOther
  \/ Return

Spec == Init /\ [][Next]_vars

(* ---------------------------------------------------------------------- *)
(* Views of the history used by the properties                             *)
(* ---------------------------------------------------------------------- *)

Buffer(buf) == IF buf = "structure" THEN output.structure ELSE output.contents

\* the text an append put in its buffer, read back from the buffer
TextOf(k) == SubSeq(Buffer(appends[k].buf), appends[k].from, appends[k].to)

AppendsTo(buf) == {k \in 1..Len(appends) : appends[k].buf = buf}

\* the entry at the relative path has a line in the structure buffer
HasLine(path) ==
  \E k \in AppendsTo("structure") :
    appends[k].path = path /\ EndsWith(TextOf(k), PathBasename(path) \o <<NL>>)

\* the entry at the relative path has text in the contents buffer
HasContents(path) ==
  \E k \in AppendsTo("contents") : appends[k].path = path /\ TextOf(k) # <<>>

AlwaysIgnoredNames == {ALWAYS_IGNORE[k] : k \in 1..Len(ALWAYS_IGNORE)}

\* the relative paths of the nodes of the tree
TreePaths == {PathRelative(targetDir, NodePath(n)) : n \in tree.present}

(* ---------------------------------------------------------------------- *)
(* C1                                                                      *)
(* ---------------------------------------------------------------------- *)

\* C1: whatever the configuration and the tree, no entry named .git,
\* node_modules, structure.txt or contents.txt has a line in the structure
\* buffer or text in the contents buffer.
C1_AlwaysIgnoredNeverAppear ==
  \A p \in TreePaths :
    PathBasename(p) \in AlwaysIgnoredNames => ~HasLine(p) /\ ~HasContents(p)

(* ---------------------------------------------------------------------- *)
(* C2                                                                      *)
(* ---------------------------------------------------------------------- *)

SRC_A_TXT == PathJoin(SRC, A_TXT)
SRC_NESTED_B_TXT == PathJoin(PathJoin(SRC, NESTED), B_TXT)
LIB_C_TXT == PathJoin(LIB, C_TXT)

\* C2: with onlyPatterns = ["src/**"] and no ignore rule touching them, over a
\* root holding src/a.txt, src/nested/b.txt and lib/c.txt, the finished walk
\* has the structure line and the contents of src/a.txt and src/nested/b.txt
\* and neither of lib/c.txt.
C2_WhitelistSrcAdmitsFilesBelowSrc ==
  ( /\ pc = "done"
    /\ tree = [present |-> WhitelistScenarioTree, faulty |-> {}]
    /\ config.only = << <<"s", "r", "c", "/", "*", "*">> >>
    /\ config.ignores = <<>> )
  => /\ HasLine(SRC_A_TXT) /\ HasContents(SRC_A_TXT)
     /\ HasLine(SRC_NESTED_B_TXT) /\ HasContents(SRC_NESTED_B_TXT)
     /\ ~HasLine(LIB_C_TXT) /\ ~HasContents(LIB_C_TXT)

(* ---------------------------------------------------------------------- *)
(* C3                                                                      *)
(* ---------------------------------------------------------------------- *)

\* the readdir calls that returned a listing
Listed == {k \in 1..Len(listings) : listings[k].ok}

\* entry j of listing k, its relative path, and whether it passes the filters
EntryOf(k, j) == listings[k].entries[j]
EntryPath(k, j) == RelativePathOf(listings[k].dir, targetDir, EntryOf(k, j).name)
Survives(k, j) == IsValidEntry(EntryOf(k, j), listings[k].dir, targetDir, ig, config.only)
Survivors(k) == {j \in 1..Len(listings[k].entries) : Survives(k, j)}

\* the structure appends made for the entry at a relative path
LinesFor(path) == {a \in AppendsTo("structure") : appends[a].path = path}

\* the structure appends made for the entries of listing k
LinesOfListing(k) ==
  {a \in AppendsTo("structure") :
     \E j \in 1..Len(listings[k].entries) : appends[a].path = EntryPath(k, j)}

RECURSIVE SurvivorCount(_)
SurvivorCount(k) ==
  IF k = 0 THEN 0
  ELSE (IF listings[k].ok THEN Cardinality(Survivors(k)) ELSE 0) + SurvivorCount(k - 1)

\* C3: when the walk has finished, every successfully listed directory has
\* exactly one structure line for each of its entries that survives the
\* filters and none for any other entry; every append to the structure buffer
\* is one line made for an entry of a listed directory; and the buffer holds
\* the root line plus one line per surviving entry of the listed directories.
C3_OneLinePerSurvivingEntry ==
  pc = "done" =>
    /\ \A k \in Listed : \A j \in 1..Len(listings[k].entries) :
         Cardinality(LinesFor(EntryPath(k, j))) = IF Survives(k, j) THEN 1 ELSE 0
    /\ \A a \in AppendsTo("structure") :
         /\ CountChar(TextOf(a), NL) = 1
         /\ EndsWith(TextOf(a), PathBasename(appends[a].path) \o <<NL>>)
         /\ \E k \in Listed : a \in LinesOfListing(k)
    /\ CountChar(output.structure, NL) = 1 + SurvivorCount(Len(listings))

\* a finished walk that listed a directory below the root in which one entry
\* survived and another was filtered out
C3_Witness ==
  /\ pc = "done"
  /\ \E k \in Listed :
       /\ listings[k].dir # targetDir
       /\ Survivors(k) # {}
       /\ Survivors(k) # 1..Len(listings[k].entries)

(* ---------------------------------------------------------------------- *)
(* C4                                                                      *)
(* ---------------------------------------------------------------------- *)

\* the four characters before the name in the line of structure append a
ConnectorOf(a) ==
  LET line == TextOf(a)
      n == Len(PathBasename(appends[a].path))
  IN SubSeq(line, Len(line) - n - 4, Len(line) - n - 1)

\* the last entry, in listing order, of listing k that passes the filters
LastSurvivor(k) == CHOOSE j \in Survivors(k) : \A m \in Survivors(k) : m <= j

\* C4: when the walk has finished, in every listed directory with a surviving
\* entry exactly one line uses the terminal connector, that line is the one
\* of the last surviving entry in listing order, and the line of every other
\* surviving entry uses the non-terminal connector.
C4_TerminalConnectorOnLastSurvivor ==
  pc = "done" =>
    \A k \in Listed :
      Survivors(k) # {} =>
        /\ Cardinality({a \in LinesOfListing(k) : ConnectorOf(a) = CONNECTOR_LAST}) = 1
        /\ \A j \in Survivors(k) :
             /\ LinesFor(EntryPath(k, j)) # {}
             /\ \A a \in LinesFor(EntryPath(k, j)) :
                  ConnectorOf(a) = IF j = LastSurvivor(k) THEN CONNECTOR_LAST ELSE CONNECTOR_MID

\* a finished walk that listed a directory with two surviving entries whose
\* last raw entry was filtered out
C4_Witness ==
  /\ pc = "done"
  /\ \E k \in Listed :
       /\ Cardinality(Survivors(k)) >= 2
       /\ Len(listings[k].entries) \notin Survivors(k)

(* ---------------------------------------------------------------------- *)
(* C5                                                                      *)
(* ---------------------------------------------------------------------- *)

\* the regular files of the tree whose bytes are not valid UTF-8
BinaryFiles ==
  {n \in tree.present : Universe[n].kind = "file" /\ Has(Universe[n].bytes, INVALID_BYTE)}

\* C5: a surviving regular file whose bytes are not valid text gets its
\* structure line and nothing in the contents buffer, neither a per-file
\* header nor any content.
C5_BinaryFileAddsNothingToContents ==
  \A n \in BinaryFiles :
    \A a \in AppendsTo("contents") : appends[a].path # PathRelative(targetDir, NodePath(n))

(* ---------------------------------------------------------------------- *)
(* C6                                                                      *)
(* ---------------------------------------------------------------------- *)

\* relative path p is the entry at e or lies in the subtree of e
AtOrBelow(p, e) == p = e \/ StartsWith(p, e \o <<SLASH>>)

\* the appends to one buffer lie in it one after the other, in the order made,
\* after the text the buffer was seeded with, and fill it to its end
InOrderMade(buf, seed) ==
  LET prior(a) == {b \in AppendsTo(buf) : b < a}
      before(a) == IF prior(a) = {} THEN Len(seed)
                   ELSE appends[CHOOSE b \in prior(a) : \A c \in prior(a) : c <= b].to
  IN /\ StartsWith(Buffer(buf), seed)
     /\ \A a \in AppendsTo(buf) : appends[a].from = before(a) + 1 /\ appends[a].to >= appends[a].from
     /\ \A a \in AppendsTo(buf) : prior(a) \cup {a} = AppendsTo(buf) => appends[a].to = Len(Buffer(buf))
     /\ AppendsTo(buf) = {} => Buffer(buf) = seed

\* C6: at every moment of the walk, (1) the lines of the surviving entries of
\* a directory were appended in the order the listing returned them, (2) every
\* append made for an entry or for anything in its subtree comes after the
\* entry's own line, with nothing made for another subtree in between, so the
\* subtree's appends are over before the next sibling's line and two sibling
\* subtrees never interleave, and (3) each buffer holds its appends in the
\* order they were made.
C6_PreOrderInListingOrder ==
  pc \in {"traverse", "done"} =>
    /\ \A k \in Listed : \A j1, j2 \in 1..Len(listings[k].entries) :
         j1 < j2 =>
           \A a1 \in LinesFor(EntryPath(k, j1)) : \A a2 \in LinesFor(EntryPath(k, j2)) : a1 < a2
    /\ \A a \in AppendsTo("structure") : \A b \in 1..Len(appends) :
         (b # a /\ AtOrBelow(appends[b].path, appends[a].path)) =>
           /\ b > a
           /\ \A m \in (a + 1)..b : AtOrBelow(appends[m].path, appends[a].path)
    /\ InOrderMade("structure", InitialOutput(targetDir, config.includeContentsHeader).structure)
    /\ InOrderMade("contents", InitialOutput(targetDir, config.includeContentsHeader).contents)

\* a finished walk in which two sibling directories each had a file of their
\* subtree read into the contents buffer
C6_Witness ==
  /\ pc = "done"
  /\ \E a1, a2 \in AppendsTo("structure") :
       /\ a1 < a2
       /\ ~AtOrBelow(appends[a2].path, appends[a1].path)
       /\ \E b1, b2 \in AppendsTo("contents") :
            /\ StartsWith(appends[b1].path, appends[a1].path \o <<SLASH>>)
            /\ StartsWith(appends[b2].path, appends[a2].path \o <<SLASH>>)

(* ---------------------------------------------------------------------- *)
(* C7                                                                      *)
(* ---------------------------------------------------------------------- *)

\* The output of a whole walk of directory dir, computed in one go, in which
\* a directory that cannot be listed counts as an empty directory and a file
\* that cannot be read as a file that is skipped (its line, no contents).
RECURSIVE WalkAsIfEmpty(_, _, _)
RECURSIVE WalkEntriesAsIfEmpty(_, _, _, _)
WalkAsIfEmpty(dir, prefix, out) ==
  LET entries == IF Readdir(tree, dir).ok THEN Readdir(tree, dir).entries ELSE <<>>
      valid == SelectSeq(entries, LAMBDA e : IsValidEntry(e, dir, targetDir, ig, config.only))
  IN WalkEntriesAsIfEmpty(dir, prefix, valid, out)

WalkEntriesAsIfEmpty(dir, prefix, valid, out) ==
  IF valid = <<>> THEN out
  ELSE LET e == Head(valid)
           last == Len(valid) = 1
           path == PathJoin(dir, e.name)
           lined == [out EXCEPT !.structure =
                       @ \o prefix \o (IF last THEN CONNECTOR_LAST ELSE CONNECTOR_MID)
                         \o e.name \o <<NL>>]
           after ==
             IF e.kind = "dir"
               THEN WalkAsIfEmpty(path, prefix \o (IF last THEN PREFIX_LAST ELSE PREFIX_MID), lined)
             ELSE IF e.kind = "file" /\ ReadFile(tree, path).ok
               THEN [lined EXCEPT !.contents =
                       @ \o ContentsBlock(config.includeContentsHeader,
                                          PathRelative(targetDir, path), ReadFile(tree, path).text)]
             ELSE lined
       IN WalkEntriesAsIfEmpty(dir, prefix, Tail(valid), after)

\* C7: no step of the walk, a failing one included, changes what a buffer
\* already holds (a buffer only grows at its end), and the walk ends with
\* exactly the output of a walk in which every unlistable directory is an
\* empty directory and every unreadable file a skipped file: a failure drops
\* only the failing node's own children or contents, never a sibling or a
\* branch of an ancestor.
C7_FailuresNeverAbortTheWalk ==
  [][ /\ StartsWith(output'.structure, output.structure)
      /\ StartsWith(output'.contents, output.contents)
      /\ pc' = "done" =>
           output' = WalkAsIfEmpty(targetDir, <<>>,
                                   InitialOutput(targetDir, config.includeContentsHeader)) ]_vars

\* a finished walk in which a directory with children could not be listed and
\* a later sibling branch had a file read after the failure
C7_Witness ==
  /\ pc = "done"
  /\ \E n \in tree.faulty \cap tree.present :
       /\ Universe[n].kind = "dir"
       /\ \E c \in tree.present : Universe[c].dir = NodePath(n)
       /\ \E a \in LinesFor(PathRelative(targetDir, NodePath(n))) :
            \E b \in AppendsTo("contents") : b > a

(* ---------------------------------------------------------------------- *)
(* C8                                                                      *)
(* ---------------------------------------------------------------------- *)

\* "/* --- File: <relativePath> --- */"
FileHeaderComment(relativePath) ==
  <<"/", "*", " ", "-", "-", "-", " ", "F", "i", "l", "e", ":", " ">> \o relativePath
    \o <<" ", "-", "-", "-", " ", "*", "/">>

\* the full text of the file at a relative path
FullText(relativePath) == ReadFile(tree, PathJoin(targetDir, relativePath)).text

AmendedBlock(relativePath) ==
  (IF config.includeContentsHeader
   THEN <<NL>> \o FileHeaderComment(relativePath) \o <<NL>> \o <<NL>>
   ELSE <<>>) \o FullText(relativePath) \o <<NL>>

\* the blocks of the files read successfully, in the order of their structure lines
RECURSIVE BlocksInLineOrder(_)
BlocksInLineOrder(a) ==
  IF a > Len(appends) THEN <<>>
  ELSE (IF /\ appends[a].buf = "structure"
           /\ NodeAt(tree, PathJoin(targetDir, appends[a].path)) # 0
           /\ Universe[NodeAt(tree, PathJoin(targetDir, appends[a].path))].kind = "file"
           /\ ReadFile(tree, PathJoin(targetDir, appends[a].path)).ok
        THEN AmendedBlock(appends[a].path)
        ELSE <<>>) \o BlocksInLineOrder(a + 1)

TestedPath(k, j) ==
  IF EntryOf(k, j).kind = "dir" THEN EntryPath(k, j) \o <<SLASH>> ELSE EntryPath(k, j)

\* some whitelist pattern matches the whole of the path
PassesWhitelist(path) ==
  \E w \in 1..Len(config.only) :
    Len(path) \in RegexEnds(RegExpCompile(ReplaceStars(config.only[w])), path, 0)

\* C9: when the walk has finished, an entry of a listed directory has a
\* structure line (it survived) if and only if the whitelist is empty or one
\* of its patterns matches the entry's whole tested path, and the ignore
\* ruleset does not match that path.
C9_SurvivesIffWhitelistedAndNotIgnored ==
  pc = "done" =>
    \A k \in Listed : \A j \in 1..Len(listings[k].entries) :
      LinesFor(EntryPath(k, j)) # {}
        <=> /\ config.only = <<>> \/ PassesWhitelist(TestedPath(k, j))
            /\ ~Ignores(ig, TestedPath(k, j))

\* a finished walk, under a whitelist, of a directory holding an entry that
\* fails the whitelist though no ignore rule matches it, and an entry that
\* passes the whitelist and is excluded by an ignore rule
C9_Witness ==
  /\ pc = "done"
  /\ config.only # <<>>
  /\ \E k \in Listed : \E j1, j2 \in 1..Len(listings[k].entries) :
       /\ ~PassesWhitelist(TestedPath(k, j1)) /\ ~Ignores(ig, TestedPath(k, j1))
       /\ LinesFor(EntryPath(k, j1)) = {}
       /\ PassesWhitelist(TestedPath(k, j2)) /\ Ignores(ig, TestedPath(k, j2))
       /\ LinesFor(EntryPath(k, j2)) = {}
  /\ \E a \in AppendsTo("structure") : PassesWhitelist(appends[a].path \o <<SLASH>>)

(* ---------------------------------------------------------------------- *)
(* C10                                                                     *)
(* ---------------------------------------------------------------------- *)

\* the text before the connector in the line of structure append a
PrefixOf(a) ==
  LET line == TextOf(a)
      n == Len(PathBasename(appends[a].path))
  IN SubSeq(line, 1, Len(line) - n - 5)

\* the relative path of the directory holding the entry at a relative path
\* below the first level
DirectoryOf(path) == SubSeq(path, 1, Len(path) - Len(PathBasename(path)) - 1)

\* the depth of a relative path: 1 for an entry of the root
Depth(path) == CountChar(path, SLASH) + 1

\* the directory at a relative path was the last surviving entry of its parent
WasLastSurvivor(path) ==
  \E k \in Listed : \E j \in Survivors(k) :
    EntryPath(k, j) = path /\ j = LastSurvivor(k)

\* one segment per ancestor directory below the root, the outermost first
RECURSIVE AncestorSegments(_)
AncestorSegments(path) ==
  IF ~Has(path, SLASH) THEN <<>>
  ELSE AncestorSegments(DirectoryOf(path))
         \o (IF WasLastSurvivor(DirectoryOf(path)) THEN PREFIX_LAST ELSE PREFIX_MID)

\* C10: the text before the connector of the line of an entry at depth d is
\* d-1 segments of four characters, one per ancestor directory below the root
\* from the outermost to the innermost: four spaces for an ancestor that was
\* the last surviving entry of its parent, a vertical bar and three spaces
\* for any other.
C10_PrefixIsOneSegmentPerAncestor ==
  \A a \in AppendsTo("structure") :
    /\ Len(PrefixOf(a)) = 4 * (Depth(appends[a].path) - 1)
    /\ PrefixOf(a) = AncestorSegments(appends[a].path)

\* a line at depth 3 below one ancestor that was last and one that was not
C10_Witness ==
  \E a \in AppendsTo("structure") :
    /\ Depth(appends[a].path) = 3
    /\ PrefixOf(a) \in {PREFIX_LAST \o PREFIX_MID, PREFIX_MID \o PREFIX_LAST}

(* ---------------------------------------------------------------------- *)
(* C11                                                                     *)
(* ---------------------------------------------------------------------- *)

\* the relative paths of the directories above a relative path, below the root
AncestorsOf(path) == {SubSeq(path, 1, i - 1) : i \in {i \in 1..Len(path) : path[i] = SLASH}}

\* the directory at a relative path passes the whitelist (if there is one) and
\* is not matched by the ignore ruleset
DirectorySurvives(dir) ==
  /\ config.only = <<>> \/ PassesWhitelist(dir \o <<SLASH>>)
  /\ ~Ignores(ig, dir \o <<SLASH>>)

\* the entry at a relative path is the entry of some successful listing
WasListed(path) ==
  \E k \in Listed : \E j \in 1..Len(listings[k].entries) : EntryPath(k, j) = path

\* the rules, asked about the path alone, end on a negation rule matching it
ReincludedByNegation(path) ==
  /\ ~TestOne(ig, path, FALSE)
  /\ \E r \in 1..Len(ig) : ig[r].negative /\ RuleMatches(ig[r], path)

\* C11: at every moment of the walk, an entry with a structure line or with
\* text in the contents buffer has every directory above it (below the root)
\* passing the whitelist and not ignored, and that directory has a structure
\* line itself: nothing below an excluded directory appears in a buffer.
C11_NothingAppearsBelowAnExcludedDirectory ==
  \A p \in TreePaths :
    HasLine(p) \/ HasContents(p) =>
      \A dir \in AncestorsOf(p) : DirectorySurvives(dir) /\ HasLine(dir)

\* a finished walk under a whitelist in which a file below a surviving
\* directory has its line and its text, a file matching the whitelist lies
\* below a listed directory the whitelist excluded, and a file re-included by
\* a negation rule (and matching the whitelist) lies below a listed directory
\* that passed the whitelist and was excluded by an ignore rule
C11_Witness ==
  /\ pc = "done"
  /\ config.only # <<>>
  /\ \E p \in TreePaths :
       AncestorsOf(p) # {} /\ HasLine(p) /\ HasContents(p)
  /\ \E p \in TreePaths : \E dir \in AncestorsOf(p) :
       /\ WasListed(dir) /\ ~PassesWhitelist(dir \o <<SLASH>>)
       /\ PassesWhitelist(p) /\ ~TestOne(ig, p, FALSE)
       /\ ~HasLine(p) /\ ~HasContents(p)
  /\ \E p \in TreePaths : \E dir \in AncestorsOf(p) :
       /\ WasListed(dir) /\ PassesWhitelist(dir \o <<SLASH>>)
       /\ TestOne(ig, dir \o <<SLASH>>, FALSE)
       /\ PassesWhitelist(p) /\ ReincludedByNegation(p)
       /\ ~HasLine(p) /\ ~HasContents(p)

====
